---- MODULE Spec2Model ----
(***************************************************************************)
(* Model of the risk engine of risk_analytics_app (src/var_calculator.py)  *)
(* and of the process-wide numpy random generator it seeds and draws from. *)
(*                                                                         *)
(* Numbers.  A Python/numpy float is modelled as a fixed-point number: the *)
(* integer x stands for the real x / SCALE.  Sums and differences are      *)
(* exact; products and quotients round toward minus infinity.  Prices are  *)
(* whole currency units.  A division by zero of numpy floats yields the    *)
(* non-finite values NaN, PosInf or NegInf, which are kept apart from the  *)
(* finite range.                                                           *)
(***************************************************************************)
EXTENDS Integers, Sequences, FiniteSets, TLC

\* ------------------------------------------------------------------ bounds
\* Resolution of the float model: units per 1.0.
SCALE == 10000
\* Price series lengths range over MinObservations-1 .. MinObservations+MaxExtra.
MaxExtra == 1
\* Number of Monte Carlo draws (10,000 in the source, line 74), scaled down.
n_simulations == 5
\* Number of states of the modelled pseudo-random generator.
RngModulus == 8
\* Longest input enumerated for the pure functions of the engine.
MaxLen == 4
\* Length of the uniform backtest inputs (ten returns against ten estimates).
ExampleLen == 10
\* Most rows and most columns (assets) of a returns matrix.
MaxRows == 5
MaxCols == 2
\* Most records of a daily time series in an API response, and the latest
\* instant of the clock.
MaxEntries == 3
MaxTime == 4
\* No fetch-and-analyse starts once fund_prices holds this many rows.
MaxPriceRows == 60

\* --------------------------------------------------------- program constants
MinObservations == 50
MC_SEED == 42
TRADING_DAYS_MONTH == 22
TRADING_DAYS_YEAR == 252

\* ------------------------------------------------------------ float model
PosInf == 2 ^ 30
NegInf == 1 - (2 ^ 30)
NaN == 0 - (2 ^ 30)
IsFinite(x) == x > NegInf /\ x < PosInf

\* The float nearest the decimal literal n / d.
Dec(n, d) == (n * SCALE) \div d

\* x * y of two floats (exact floor of the product, staged to stay in range).
Mul(x, y) ==
    (x \div SCALE) * y + (x % SCALE) * (y \div SCALE)
        + ((x % SCALE) * (y % SCALE)) \div SCALE

\* x / y of two numpy floats: non-finite on a zero divisor.
FDiv(x, y) ==
    IF y = 0
    THEN (IF x = 0 THEN NaN ELSE IF x > 0 THEN PosInf ELSE NegInf)
    ELSE (x \div y) * SCALE + ((x % y) * SCALE) \div y

\* Largest r with r * r <= n, by bisection on lo..hi.
RECURSIVE ISqrtIn(_, _, _)
ISqrtIn(n, lo, hi) ==
    IF lo >= hi THEN lo
    ELSE LET mid == (lo + hi + 1) \div 2
         IN  IF mid * mid <= n THEN ISqrtIn(n, mid, hi) ELSE ISqrtIn(n, lo, mid - 1)

ISqrt(n) == ISqrtIn(n, 0, 46340)

\* np.sqrt of a float.
FSqrt(x) == ISqrt(x * SCALE)

\* x ** k for a natural k, by repeated squaring.
RECURSIVE FPow(_, _)
FPow(x, k) ==
    IF k = 0 THEN SCALE
    ELSE IF k % 2 = 0
         THEN LET h == FPow(x, k \div 2) IN Mul(h, h)
         ELSE Mul(FPow(x, k - 1), x)

\* np.log of a float: -inf at zero, nan below.  The argument is halved or
\* doubled into [1, 2), then ln m = 2 atanh((m - 1) / (m + 1)) by its series.
LN2 == Dec(6931, 10000)

RECURSIVE LnReduced(_, _)
LnReduced(x, k) ==
    IF x >= 2 * SCALE THEN LnReduced(x \div 2, k + 1)
    ELSE IF x < SCALE THEN LnReduced(2 * x, k - 1)
    ELSE LET y == FDiv(x - SCALE, x + SCALE)
             y2 == Mul(y, y)
             y3 == Mul(y, y2)
             y5 == Mul(y3, y2)
             y7 == Mul(y5, y2)
         IN  k * LN2 + 2 * (y + y3 \div 3 + y5 \div 5 + y7 \div 7)

FLn(x) ==
    IF x = 0 THEN NegInf
    ELSE IF x < 0 \/ ~IsFinite(x) THEN NaN
    ELSE LnReduced(x, 0)

\* 1 - stats.chi2.cdf(x, df=1), from the table of the chi-square
\* distribution with one degree of freedom, interpolated between its rows.
Chi2Table ==
    << << 0, SCALE >>,
       << Dec(158, 10000), Dec(90, 100) >>,
       << Dec(4549, 10000), Dec(50, 100) >>,
       << Dec(16424, 10000), Dec(20, 100) >>,
       << Dec(27055, 10000), Dec(10, 100) >>,
       << Dec(38415, 10000), Dec(5, 100) >>,
       << Dec(66349, 10000), Dec(1, 100) >>,
       << Dec(108276, 10000), Dec(1, 1000) >> >>

Chi2Sf1(x) ==
    IF ~IsFinite(x) THEN NaN
    ELSE IF x <= 0 THEN SCALE
    ELSE IF x >= Chi2Table[Len(Chi2Table)][1] THEN 1
    ELSE LET i == CHOOSE j \in 1..(Len(Chi2Table) - 1) :
                      Chi2Table[j][1] <= x /\ x < Chi2Table[j + 1][1]
             x0 == Chi2Table[i][1]
             x1 == Chi2Table[i + 1][1]
             p0 == Chi2Table[i][2]
             p1 == Chi2Table[i + 1][2]
         IN  p0 - ((p0 - p1) * (x - x0)) \div (x1 - x0)

RECURSIVE SumSeq(_)
SumSeq(s) == IF s = << >> THEN 0 ELSE Head(s) + SumSeq(Tail(s))

\* np.mean: nan on an empty array.
Mean(s) == IF Len(s) = 0 THEN NaN ELSE SumSeq(s) \div Len(s)

\* np.std(ddof=1): sqrt(sum((x - mean)^2) / (n - 1)); nan when n <= 1.
StdDdof1(s) ==
    IF Len(s) <= 1 THEN NaN
    ELSE LET m == Mean(s)
             sq == [i \in 1..Len(s) |-> Mul(s[i] - m, s[i] - m)]
         IN  FSqrt(SumSeq(sq) \div (Len(s) - 1))

\* np.sort: position of a[i] in ascending order, ties kept in input order.
Rank(a, i) ==
    Cardinality({j \in 1..Len(a) : a[j] < a[i] \/ (a[j] = a[i] /\ j < i)}) + 1

Sorted(a) ==
    LET r == [i \in 1..Len(a) |-> Rank(a, i)]
    IN  [k \in 1..Len(a) |-> a[CHOOSE i \in 1..Len(a) : r[i] = k]]

\* Variant: the percentile is counted from the top of the sorted array.
Percentile_from_top(a, q) ==
    IF Len(a) = 0 THEN NaN
    ELSE LET srt == Sorted(a)
             idx == ((Len(a) - 1) * (100 - q) * SCALE) \div 100
             lo == idx \div SCALE
             g == idx % SCALE
         IN  IF lo + 2 > Len(a) THEN srt[Len(a)]
             ELSE srt[lo + 1] + Mul(g, srt[lo + 2] - srt[lo + 1])

\* np.percentile(a, q), linear interpolation: the value at the virtual index
\* (n - 1) * q / 100 of the sorted array; nan on an empty array.
Percentile(a, q) ==
    IF Len(a) = 0 THEN NaN
    ELSE LET srt == Sorted(a)
             idx == ((Len(a) - 1) * q * SCALE) \div 100
             lo == idx \div SCALE
             g == idx % SCALE
         IN  IF lo + 2 > Len(a) THEN srt[Len(a)]
             ELSE srt[lo + 1] + Mul(g, srt[lo + 2] - srt[lo + 1])

\* Variant: the entries strictly below t.
Below_strict(a, t) == SelectSeq(a, LAMBDA x : x < t)

\* a[a <= t]: the entries of a that are <= t, in order.
Below(a, t) == SelectSeq(a, LAMBDA x : x <= t)

\* ------------------------------------------------- VarCalculator, pure part
\* (prices[i] - prices[i-1]) / prices[i-1] of Python floats; the quotient of two
\* prices is a float.  Python raises ZeroDivisionError on a zero divisor, which
\* the guard of calculate_returns excludes; the model marks it NaN.
return_val(prev, cur) == IF prev = 0 THEN NaN ELSE FDiv(cur - prev, prev)

\* The loop of calculate_returns from index i on, returns being the list so far.
RECURSIVE ReturnsLoop(_, _, _)
ReturnsLoop(prices, i, returns) ==
    IF i > Len(prices) THEN returns
    ELSE ReturnsLoop(prices, i + 1,
                     IF prices[i - 1] # 0
                     THEN Append(returns, return_val(prices[i - 1], prices[i]))
                     ELSE returns)

\* Variant: every pair emits a value, a zero prior price included.
calculate_returns_noskip(prices) ==
    IF Len(prices) < 2 THEN << >>
    ELSE [i \in 1..(Len(prices) - 1) |-> return_val(prices[i], prices[i + 1])]

\* Variant: a leading 0 stands for the first price, as a percentage-change
\* column has.
calculate_returns_padded(prices) ==
    IF Len(prices) = 0 THEN << >> ELSE << 0 >> \o ReturnsLoop(prices, 2, << >>)

calculate_returns(prices) ==
    IF Len(prices) < 2 THEN << >> ELSE ReturnsLoop(prices, 2, << >>)

\* Variants: the check off by one, either way.
InsufficientData_below(prices) == Len(prices) < MinObservations - 1
InsufficientData_upto(prices) == Len(prices) <= MinObservations

\* The length check that opens calculate_var.
InsufficientData(prices) == Len(prices) < MinObservations

z_05 == Dec(-16449, 10000)
z_01 == Dec(-23263, 10000)
risk_free_rate == Dec(2, 100)
SQRT_22 == Dec(46904, 10000)
SQRT_252 == Dec(158745, 10000)

\* Deviations from the mean in units of the population standard deviation.
Standardized(a) ==
    LET m == Mean(a)
        m2 == SumSeq([i \in 1..Len(a) |-> Mul(a[i] - m, a[i] - m)]) \div Len(a)
        s == FSqrt(m2)
    IN  [i \in 1..Len(a) |-> FDiv(a[i] - m, s)]

\* stats.skew: m3 / m2^1.5 (nan for a constant array).
Skew(a) ==
    LET u == Standardized(a)
    IN  IF Len(a) = 0 \/ ~IsFinite(u[1]) THEN NaN
        ELSE Mean([i \in 1..Len(a) |-> Mul(Mul(u[i], u[i]), u[i])])

\* Variant: the excess (Fisher) scale, 3 less.
KurtosisFisher(a) ==
    LET u == Standardized(a)
    IN  IF Len(a) = 0 \/ ~IsFinite(u[1]) THEN NaN
        ELSE Mean([i \in 1..Len(a) |-> Mul(Mul(u[i], u[i]), Mul(u[i], u[i]))])
                 - 3 * SCALE

\* stats.kurtosis(fisher=False): m4 / m2^2 (nan for a constant array).
KurtosisPearson(a) ==
    LET u == Standardized(a)
    IN  IF Len(a) = 0 \/ ~IsFinite(u[1]) THEN NaN
        ELSE Mean([i \in 1..Len(a) |-> Mul(Mul(u[i], u[i]), Mul(u[i], u[i]))])

\* Variant: no guard against a zero annual_std.
SharpeRatio_unguarded(annual_return, annual_std) ==
    FDiv(annual_return - risk_free_rate, annual_std)

SharpeRatio(annual_return, annual_std) ==
    IF annual_std # 0 THEN FDiv(annual_return - risk_free_rate, annual_std) ELSE 0

ParametricVar(daily_mean, z, daily_std) == daily_mean - Mul(z, daily_std)

\* Variant: only the entries strictly below var are averaged.
CVaR_strict(a, var) ==
    LET below == SelectSeq(a, LAMBDA x : x < var)
    IN  IF Len(below) > 0 THEN Mean(below) ELSE var

\* Mean of the entries <= var, or var itself when there is none.
CVaR(a, var) ==
    LET below == Below(a, var)
    IN  IF Len(below) > 0 THEN Mean(below) ELSE var

\* Lines 33-70 of calculate_var: everything computed before the generator is
\* touched.  normality_p_value (scipy's omnibus test) enters no decision of
\* the engine and is not carried.
Statistics(prices) ==
    LET returns == calculate_returns(prices)
        daily_mean == Mean(returns)
        daily_std == StdDdof1(returns)
        annual_return == FPow(SCALE + daily_mean, TRADING_DAYS_YEAR) - SCALE
        annual_std == Mul(daily_std, SQRT_252)
        historical_var_5 == Percentile(returns, 5)
        historical_var_1 == Percentile(returns, 1)
    IN  [ returns |-> returns,
          daily_mean |-> daily_mean,
          daily_std |-> daily_std,
          monthly_mean |-> daily_mean * TRADING_DAYS_MONTH,
          monthly_std |-> Mul(daily_std, SQRT_22),
          skewness |-> Skew(returns),
          kurtosis |-> KurtosisPearson(returns),
          annual_return |-> annual_return,
          sharpe_ratio |-> SharpeRatio(annual_return, annual_std),
          parametric_var_5 |-> ParametricVar(daily_mean, z_05, daily_std),
          parametric_var_1 |-> ParametricVar(daily_mean, z_01, daily_std),
          historical_var_5 |-> historical_var_5,
          historical_var_1 |-> historical_var_1,
          historical_cvar_5 |-> CVaR(returns, historical_var_5),
          historical_cvar_1 |-> CVaR(returns, historical_var_1) ]

\* ----------------------------------------------------------- backtest_var
\* Variant: the lengths are compared one way only.
LengthMismatch_longer(returns, var_estimates) ==
    Len(returns) > Len(var_estimates)

\* The test of line 130 that raises ValueError.
LengthMismatch(returns, var_estimates) ==
    Len(returns) # Len(var_estimates)

\* Variant: a return equal to its estimate counts as a violation too.
Violations_nonstrict(returns, var_estimates) ==
    Cardinality({i \in 1..Len(returns) : returns[i] <= var_estimates[i]})

\* sum(1 for r, var in zip(returns, var_estimates) if r < var)
Violations(returns, var_estimates) ==
    Cardinality({i \in 1..Len(returns) : returns[i] < var_estimates[i]})

\* Variant: only the no-violation case is treated as degenerate.
KupiecDegenerate_zero_only(violations, total_observations) ==
    violations = 0

\* The test of line 139 that selects the sentinel values.
KupiecDegenerate(violations, total_observations) ==
    violations = 0 \/ violations = total_observations

\* Lines 143-144: the likelihood-ratio statistic (nan once a log is not finite).
KupiecLR(violations, total_observations, violation_rate, confidence_level) ==
    LET a == FLn(FDiv(violation_rate, confidence_level))
        b == FLn(FDiv(SCALE - violation_rate, SCALE - confidence_level))
    IN  IF IsFinite(a) /\ IsFinite(b)
        THEN 2 * (violations * a + (total_observations - violations) * b)
        ELSE NaN

Raised(exception) == [ok |-> FALSE, error |-> exception, value |-> << >>]
Returns(value) == [ok |-> TRUE, error |-> "", value |-> value]

backtest_var(returns, var_estimates, confidence_level) ==
    IF LengthMismatch(returns, var_estimates) THEN Raised("ValueError")
    ELSE LET violations == Violations(returns, var_estimates)
             total_observations == Len(returns)
         IN  IF total_observations = 0 THEN Raised("ZeroDivisionError")
             ELSE LET violation_rate == Dec(violations, total_observations)
                      degenerate == KupiecDegenerate(violations, total_observations)
                      lr_stat == KupiecLR(violations, total_observations,
                                          violation_rate, confidence_level)
                      kupiec_stat == IF degenerate THEN PosInf ELSE lr_stat
                      kupiec_p_value == IF degenerate THEN 0 ELSE Chi2Sf1(lr_stat)
                  IN  Returns([ violations |-> violations,
                                violation_rate |-> violation_rate,
                                expected_violations |-> confidence_level * total_observations,
                                kupiec_statistic |-> kupiec_stat,
                                kupiec_p_value |-> kupiec_p_value,
                                model_adequate |-> IsFinite(kupiec_p_value)
                                                   /\ kupiec_p_value > Dec(5, 100) ])

\* ------------------------------------------------ calculate_portfolio_var
\* returns_matrix.shape[1] of a two-dimensional array, here a sequence of at
\* least one row, each row holding one return per asset.
Columns(returns_matrix) == Len(returns_matrix[1])

\* Variant: only too few weights are refused.
WeightCountMismatch_fewer(weights, returns_matrix) ==
    Len(weights) < Columns(returns_matrix)

\* The test of line 119 that raises ValueError.
WeightCountMismatch(weights, returns_matrix) ==
    Len(weights) # Columns(returns_matrix)

\* Variant: the weights are rescaled to sum to 1.
PortfolioWeights_normalized(weights) ==
    [j \in 1..Len(weights) |-> FDiv(weights[j], SumSeq(weights))]

\* Line 122: np.array(weights), the weights as given.
PortfolioWeights(weights) == weights

\* Variant: only the first asset enters the portfolio.
MatVec_first_column(returns_matrix, weights) ==
    [i \in 1..Len(returns_matrix) |-> Mul(returns_matrix[i][1], weights[1])]

\* Line 123: returns_matrix @ weights, one portfolio return per row.
MatVec(returns_matrix, weights) ==
    [i \in 1..Len(returns_matrix) |->
        SumSeq([j \in 1..Columns(returns_matrix) |->
                    Mul(returns_matrix[i][j], weights[j])])]

\* np.percentile(a, level * 100), linear interpolation: the value at the
\* virtual index (n - 1) * level of the sorted array; nan on an empty array.
PercentileAtLevel(a, level) ==
    IF Len(a) = 0 THEN NaN
    ELSE LET srt == Sorted(a)
             idx == (Len(a) - 1) * level
             lo == idx \div SCALE
             g == idx % SCALE
         IN  IF lo + 2 > Len(a) THEN srt[Len(a)]
             ELSE srt[lo + 1] + Mul(g, srt[lo + 2] - srt[lo + 1])

calculate_portfolio_var(weights, returns_matrix, confidence_level) ==
    IF WeightCountMismatch(weights, returns_matrix) THEN Raised("ValueError")
    ELSE Returns(PercentileAtLevel(
                     MatVec(returns_matrix, PortfolioWeights(weights)),
                     confidence_level))

\* ---------------------------------------------------- AlphaVantageService
\* The except clauses of lines 79-84: what get_daily_prices raises for an
\* exception raised inside its try block.
Reraise_wrap_all(exception) ==
    IF exception = "RequestException" THEN "ConnectionError"
    ELSE "RuntimeError"

Reraise(exception) ==
    IF exception = "RequestException" THEN "ConnectionError"
    ELSE IF exception = "ValueError" THEN "ValueError"
    ELSE "RuntimeError"

\* Lines 64-72: one record per item of the time series, in the order of the
\* response.  strptime, float and int raise ValueError on text they cannot
\* parse; a missing key raises KeyError.  The result is the exception or "".
RecordError(entry) ==
    IF entry.defect \in {"bad_date", "bad_number"} THEN "ValueError"
    ELSE IF entry.defect = "missing_field" THEN "KeyError"
    ELSE ""

PriceRecord(entry) == [date |-> entry.date, close |-> entry.close]

\* Variant: the records stay in the order of the response.
SortByDate_unsorted(records) == records

\* Line 75: prices.sort(key=date), ascending and stable.
SortByDate(records) ==
    LET n == Len(records)
        rank == [i \in 1..n |->
                    Cardinality({j \in 1..n :
                        \/ records[j].date < records[i].date
                        \/ (records[j].date = records[i].date /\ j < i)}) + 1]
        ranked == {<< rank[i], i >> : i \in 1..n}
    IN  [k \in 1..n |->
            records[CHOOSE i \in 1..n : << k, i >> \in ranked]]

\* get_daily_prices on the response the API gives.  json_error is the
\* exception response.json() raises on a body that is not JSON: a
\* RequestException in current releases of requests, a plain ValueError in
\* earlier ones.
get_daily_prices(response, json_error) ==
    IF response.failure # "none" THEN Raised(Reraise("RequestException"))
    ELSE IF response.body = "not_json" THEN Raised(Reraise(json_error))
    ELSE IF response.body = "scalar" THEN Raised(Reraise("TypeError"))
    ELSE IF response.error_message THEN Raised(Reraise("ValueError"))
    ELSE IF response.note THEN Raised(Reraise("ValueError"))
    ELSE IF ~response.has_series THEN Raised(Reraise("ValueError"))
    ELSE LET series == response.time_series
             bad == {i \in 1..Len(series) : RecordError(series[i]) # ""}
         IN  IF bad # {}
             THEN LET first == CHOOSE i \in bad : \A j \in bad : i <= j
                  IN  Raised(Reraise(RecordError(series[first])))
             ELSE Returns(SortByDate(
                      [i \in 1..Len(series) |-> PriceRecord(series[i])]))

\* Variant: the records before the cutoff are the ones kept.
RecentPrices_before(prices, cutoff_date) ==
    SelectSeq(prices, LAMBDA p : p.date < cutoff_date)

\* Line 95: the records dated on or after the cutoff, in order.
RecentPrices(prices, cutoff_date) ==
    SelectSeq(prices, LAMBDA p : p.date >= cutoff_date)

\* Lines 86-97; today is datetime.now().
get_recent_prices(response, json_error, today, days) ==
    LET fetched == get_daily_prices(response, json_error)
    IN  IF ~fetched.ok THEN fetched
        ELSE IF fetched.value = << >> THEN Returns(<< >>)
        ELSE Returns(RecentPrices(fetched.value, today - days))

\* ------------------------------------------------ numpy's global generator
\* np.random.seed(seed): the state a seed puts the generator in.
Seeded(seed) == seed % RngModulus

\* One step of the generator (a counter; Gauss scrambles it).
RngNext(s) == (s + 1) % RngModulus

\* The generator state after k draws.
RECURSIVE RngAfter(_, _)
RngAfter(s, k) == IF k = 0 THEN s ELSE RngAfter(RngNext(s), k - 1)

\* The standard normal deviate drawn in state s (a multiple of 0.5 in -3..3).
Gauss(s) == Dec(((7 * s) % 13) - 6, 2)

\* np.random.normal(loc, scale, n) drawn from state s: loc + scale * deviate.
Normal(s, loc, scale, n) ==
    [k \in 1..n |-> loc + Mul(scale, Gauss(RngAfter(s, k - 1)))]

\* Variant: the prices are counted, not the returns.
DataPoints_prices(returns) == Len(returns) + 1

\* Line 107: len(returns), the returns that calculate_returns emitted.
DataPoints(returns) == Len(returns)

\* Lines 77-108 of calculate_var: percentiles of the simulated sample and the
\* returned dictionary.
Report(st, mc_returns) ==
    LET monte_carlo_var_5 == Percentile(mc_returns, 5)
        monte_carlo_var_1 == Percentile(mc_returns, 1)
    IN  [ parametric_var_5 |-> st.parametric_var_5,
          parametric_var_1 |-> st.parametric_var_1,
          historical_var_5 |-> st.historical_var_5,
          historical_var_1 |-> st.historical_var_1,
          historical_cvar_5 |-> st.historical_cvar_5,
          historical_cvar_1 |-> st.historical_cvar_1,
          monte_carlo_var_5 |-> monte_carlo_var_5,
          monte_carlo_var_1 |-> monte_carlo_var_1,
          monte_carlo_cvar_5 |-> CVaR(mc_returns, monte_carlo_var_5),
          monte_carlo_cvar_1 |-> CVaR(mc_returns, monte_carlo_var_1),
          daily_mean |-> st.daily_mean,
          daily_std |-> st.daily_std,
          monthly_mean |-> st.monthly_mean,
          monthly_std |-> st.monthly_std,
          skewness |-> st.skewness,
          kurtosis |-> st.kurtosis,
          sharpe_ratio |-> st.sharpe_ratio,
          annual_return |-> st.annual_return,
          data_points |-> DataPoints(st.returns) ]

\* -------------------------------------------------------- DatabaseManager
\* SQL NULL, which Python reads as None.
Null == 0 - (2^30) - 1

\* Variant: a fund is looked up by symbol and name.
FundsWithSymbol_and_name(table, symbol, name) ==
    {i \in 1..Len(table) : table[i].symbol = symbol /\ table[i].name = name}

\* Lines 112-115: SELECT id FROM funds WHERE symbol = :symbol.
FundsWithSymbol(table, symbol, name) ==
    {i \in 1..Len(table) : table[i].symbol = symbol}

\* INTEGER PRIMARY KEY AUTOINCREMENT of a table no row is deleted from.
NextId(table) == Len(table) + 1

\* Lines 106-144: the id of the fund of this symbol, inserted if missing;
\* the new table and the id returned.
create_or_get_fund(table, symbol, name, description) ==
    LET found == FundsWithSymbol(table, symbol, name)
    IN  IF found # {}
        THEN [funds |-> table,
              fund_id |-> table[CHOOSE i \in found : TRUE].id]
        ELSE [funds |-> Append(table, [id |-> NextId(table),
                                       symbol |-> symbol, name |-> name,
                                       description |-> description]),
              fund_id |-> NextId(table)]

\* Lines 146-163: DataFrame.to_sql(if_exists='append'), one row per record
\* handed over; the table has no uniqueness constraint on (fund_id, date).
store_fund_prices(table, fund_id, records) ==
    table \o [i \in 1..Len(records) |->
                 [fund_id |-> fund_id, date |-> records[i].date,
                  close |-> records[i].close]]

\* sqlite3 binds a float NaN as NULL; every other number is stored as it is.
SqlValue(x) == IF x = NaN THEN Null ELSE x

\* Lines 165-222: the row inserted for a camelCase dictionary and the
\* analysis id returned (lastrowid); analysis_date is datetime.now().
store_var_analysis(table, fund_id, var_results, analysis_date) ==
    [var_analyses |-> Append(table,
        [id |-> NextId(table),
         fund_id |-> fund_id,
         analysis_date |-> analysis_date,
         parametric_var_5 |-> SqlValue(var_results.parametricVar5),
         parametric_var_1 |-> SqlValue(var_results.parametricVar1),
         historical_var_5 |-> SqlValue(var_results.historicalVar5),
         historical_var_1 |-> SqlValue(var_results.historicalVar1),
         historical_cvar_5 |-> SqlValue(var_results.historicalCvar5),
         historical_cvar_1 |-> SqlValue(var_results.historicalCvar1),
         monte_carlo_var_5 |-> SqlValue(var_results.monteCarloVar5),
         monte_carlo_var_1 |-> SqlValue(var_results.monteCarloVar1),
         monte_carlo_cvar_5 |-> SqlValue(var_results.monteCarloCvar5),
         monte_carlo_cvar_1 |-> SqlValue(var_results.monteCarloCvar1),
         daily_mean |-> SqlValue(var_results.dailyMean),
         daily_std |-> SqlValue(var_results.dailyStd),
         monthly_mean |-> SqlValue(var_results.monthlyMean),
         monthly_std |-> SqlValue(var_results.monthlyStd),
         skewness |-> SqlValue(var_results.skewness),
         kurtosis |-> SqlValue(var_results.kurtosis),
         normality_p_value |-> SqlValue(var_results.normalityPValue),
         sharpe_ratio |-> SqlValue(var_results.sharpeRatio),
         annual_return |-> SqlValue(var_results.annualReturn),
         data_points |-> SqlValue(var_results.dataPoints)]),
     analysis_id |-> NextId(table)]

\* What get_fund_analysis returns when the query finds no row.
NoAnalysis == [found |-> FALSE, row |-> << >>]

\* Lines 224-246: the rows the query may return, the join of the fund of
\* this symbol with its analyses ordered by analysis_date descending, first
\* row only; rows of equal analysis_date come in an order SQL leaves open.
get_fund_analysis(fund_table, analysis_table, symbol) ==
    LET ids == {fund_table[i].id : i \in FundsWithSymbol(fund_table, symbol, "")}
        joined == {i \in 1..Len(analysis_table) :
                      analysis_table[i].fund_id \in ids}
        first == {i \in joined : \A j \in joined :
                     analysis_table[j].analysis_date
                        <= analysis_table[i].analysis_date}
    IN  IF joined = {} THEN {NoAnalysis}
        ELSE {[found |-> TRUE, row |-> analysis_table[i]] : i \in first}

\* ------------------------------------------------------------- dashboard
\* Line 126: the window asked of get_recent_prices, in days.
AnalysisDays == 1095

\* Lines 29-108: calculate_var as one call on a freshly seeded generator.
\* p_value is what scipy's normaltest returns on a sample that varies; on a
\* constant sample it returns nan, as skew and kurtosis do.
calculate_var(close_prices, p_value) ==
    IF InsufficientData(close_prices) THEN Raised("ValueError")
    ELSE LET stats == Statistics(close_prices)
             sample == Normal(Seeded(MC_SEED), stats.daily_mean,
                              stats.daily_std, n_simulations)
             var_results == Report(stats, sample)
         IN  Returns([parametric_var_5 |-> var_results.parametric_var_5,
                      parametric_var_1 |-> var_results.parametric_var_1,
                      historical_var_5 |-> var_results.historical_var_5,
                      historical_var_1 |-> var_results.historical_var_1,
                      historical_cvar_5 |-> var_results.historical_cvar_5,
                      historical_cvar_1 |-> var_results.historical_cvar_1,
                      monte_carlo_var_5 |-> var_results.monte_carlo_var_5,
                      monte_carlo_var_1 |-> var_results.monte_carlo_var_1,
                      monte_carlo_cvar_5 |-> var_results.monte_carlo_cvar_5,
                      monte_carlo_cvar_1 |-> var_results.monte_carlo_cvar_1,
                      daily_mean |-> var_results.daily_mean,
                      daily_std |-> var_results.daily_std,
                      monthly_mean |-> var_results.monthly_mean,
                      monthly_std |-> var_results.monthly_std,
                      skewness |-> var_results.skewness,
                      kurtosis |-> var_results.kurtosis,
                      normality_p_value |->
                          IF IsFinite(var_results.skewness)
                          THEN p_value ELSE NaN,
                      sharpe_ratio |-> var_results.sharpe_ratio,
                      annual_return |-> var_results.annual_return,
                      data_points |-> var_results.data_points])

\* Lines 143-164 and 249-270: the dictionary handed to store_var_analysis.
camelCase_results(var_results) ==
    [parametricVar5 |-> var_results.parametric_var_5,
     parametricVar1 |-> var_results.parametric_var_1,
     historicalVar5 |-> var_results.historical_var_5,
     historicalVar1 |-> var_results.historical_var_1,
     historicalCvar5 |-> var_results.historical_cvar_5,
     historicalCvar1 |-> var_results.historical_cvar_1,
     monteCarloVar5 |-> var_results.monte_carlo_var_5,
     monteCarloVar1 |-> var_results.monte_carlo_var_1,
     monteCarloCvar5 |-> var_results.monte_carlo_cvar_5,
     monteCarloCvar1 |-> var_results.monte_carlo_cvar_1,
     dailyMean |-> var_results.daily_mean,
     dailyStd |-> var_results.daily_std,
     monthlyMean |-> var_results.monthly_mean,
     monthlyStd |-> var_results.monthly_std,
     skewness |-> var_results.skewness,
     kurtosis |-> var_results.kurtosis,
     normalityPValue |-> var_results.normality_p_value,
     sharpeRatio |-> var_results.sharpe_ratio,
     annualReturn |-> var_results.annual_return,
     dataPoints |-> var_results.data_points]

\* The statements of one fetch-and-analyse, in the order of lines 126-167
\* and 231-273.
Steps == << "get_recent_prices", "create_or_get_fund", "store_fund_prices",
            "calculate_var", "store_var_analysis" >>

\* Variant: the analysis is computed before the prices are stored.
StepAfter_analysis_first(step) ==
    IF step = "get_recent_prices" THEN "create_or_get_fund"
    ELSE IF step = "create_or_get_fund" THEN "calculate_var"
    ELSE IF step = "calculate_var" THEN "store_fund_prices"
    ELSE IF step = "store_fund_prices" THEN "store_var_analysis"
    ELSE "end"

\* The statement that follows a statement that returned.
StepAfter(step) ==
    IF step = "store_var_analysis" THEN "end"
    ELSE Steps[1 + CHOOSE i \in 1..Len(Steps) : Steps[i] = step]

\* ------------------------------------------------------------------ state
VARIABLES
    rng,          \* state of numpy's process-wide generator (np.random)
    pc,           \* per thread: where its engine call stands
    prices,       \* per thread: the argument of its calculate_var call
    st,           \* per thread: the locals of calculate_var before line 72
    sim_args,     \* per thread: <<mean, std>> of generate_monte_carlo_simulation
    mc_returns,   \* per thread: the simulated sample drawn by its call
    report,       \* per thread: the dictionary calculate_var returned
    error,        \* per thread: the exception its call raised, "" if none
    call_args,    \* the last call of a pure engine function: <<name, args...>>
    call_result,  \* what that call returned or raised
    funds,        \* the rows of table funds, in insertion order
    fund_prices,  \* the rows of table fund_prices, in insertion order
    var_analyses, \* the rows of table var_analyses, in insertion order
    now,          \* what datetime.now() reads
    run,          \* the dashboard script: where its fetch-and-analyse stands
    locals,       \* prices, fund_id and var_results of the handler running
    fund_analysis \* what the dashboard last read with get_fund_analysis

vars == << rng, pc, prices, st, sim_args, mc_returns, report, error,
           call_args, call_result,
           funds, fund_prices, var_analyses, now, run, locals,
           fund_analysis >>

db_vars == << funds, fund_prices, var_analyses >>
app_vars == << db_vars, now, run, locals, fund_analysis >>

engine_vars == << rng, pc, prices, st, sim_args, mc_returns, report, error >>
pure_vars == << call_args, call_result >>

\* The dashboard runs each session's script in a thread of its own.
Callers == {"t1", "t2"}

\* A thread whose engine call has returned or raised.
Returned == {"done", "failed", "gen_done"}
\* A thread inside an engine call.
Running == {"seed", "draw", "pct", "gen_draw"}

\* ----------------------------------------------------------------- inputs
\* The close prices the dashboard hands over: a flat series, a series
\* swinging between two levels, and the swinging series with one zero price.
Shapes == {"flat", "swing", "gap"}

PriceAt(shape, i) ==
    IF shape = "flat" THEN 100
    ELSE IF shape = "gap" /\ i = 3 THEN 0
    ELSE IF i % 2 = 1 THEN 100 ELSE 110

PriceSeries(shape, n) == [i \in 1..n |-> PriceAt(shape, i)]

Lengths == (MinObservations - 1)..(MinObservations + MaxExtra)

\* (mean, std) pairs handed to generate_monte_carlo_simulation.
SimArgs == { << 0, 0 >>, << Dec(1, 100), Dec(10, 100) >> }

NoResult == Returns(<< >>)

\* All sequences over vals of length at most n.
SeqsUpTo(n, vals) == UNION {[1..k -> vals] : k \in 0..n}

\* Prices handed to calculate_returns.
PriceValues == {0, 50, 100, 110}

\* Realised returns and VaR estimates handed to backtest_var, and its levels.
ReturnValues == {Dec(-10, 100), Dec(-1, 100)}
EstimateValues == {Dec(-5, 100), Dec(-1, 100)}
Levels == {Dec(5, 100), Dec(1, 100)}

BacktestInputs ==
    (SeqsUpTo(MaxLen, ReturnValues) \X SeqsUpTo(MaxLen, EstimateValues))
    \cup {<< [i \in 1..ExampleLen |-> r], [i \in 1..ExampleLen |-> e] >> :
              r \in ReturnValues, e \in EstimateValues}

\* Return series of single assets: the five-day example and a second one.
AssetSeries ==
    { << Dec(-2, 100), Dec(1, 100), Dec(3, 100), Dec(-1, 100), Dec(2, 100) >>,
      << Dec(-5, 100), Dec(4, 100), 0, Dec(2, 100), Dec(-3, 100) >> }

\* The matrix of the first rows days of the given columns, one row per day;
\* days past the end of a series repeat it.
MatrixOf(cols, rows) ==
    [i \in 1..rows |->
        [j \in 1..Len(cols) |-> cols[j][((i - 1) % Len(cols[j])) + 1]]]

ReturnsMatrices ==
    {MatrixOf(cols, rows) :
        cols \in UNION {[1..k -> AssetSeries] : k \in 1..MaxCols},
        rows \in 1..MaxRows}

\* Weights handed to calculate_portfolio_var: one more than the most columns
\* at the longest, with and without the sum 1.
WeightValues == {0, Dec(3, 10), Dec(1, 2), SCALE - Dec(3, 10), SCALE}
WeightVectors == UNION {[1..k -> WeightValues] : k \in 1..(MaxCols + 1)}

\* Time series of an API response: up to MaxEntries records of distinct
\* dates in any order, at most one of them defective.
Dates == 1..MaxEntries
Defects == {"bad_date", "bad_number", "missing_field"}
Entry(d, defect) == [date |-> d, close |-> 100 + (10 * (d % 2)), defect |-> defect]

TimeSeries ==
    LET orders == {o \in SeqsUpTo(MaxEntries, Dates) :
                      \A i, j \in 1..Len(o) : i # j => o[i] # o[j]}
    IN  {[i \in 1..Len(o) |-> Entry(o[i], "none")] : o \in orders}
        \cup {[i \in 1..Len(o) |->
                   Entry(o[i], IF i = k THEN defect ELSE "none")] :
                 o \in orders \ {<< >>}, k \in 1..2 \cap 1..MaxEntries,
                 defect \in Defects}

JsonObject(error_message, note, has_series, series) ==
    [failure |-> "none", body |-> "object", error_message |-> error_message,
     note |-> note, has_series |-> has_series, time_series |-> series]

Responses ==
    {[JsonObject(FALSE, FALSE, FALSE, << >>) EXCEPT !.failure = f] :
        f \in {"timeout", "http_error"}}
    \cup {[JsonObject(FALSE, FALSE, FALSE, << >>) EXCEPT !.body = b] :
             b \in {"not_json", "scalar"}}
    \cup {JsonObject(e, n, FALSE, << >>) : e, n \in BOOLEAN}
    \cup {JsonObject(e, n, TRUE, t) : e, n \in BOOLEAN, t \in TimeSeries}

JsonErrors == {"RequestException", "ValueError"}

\* The instants of datetime.now() and the windows asked of get_recent_prices.
Times == 0..MaxTime
Windows == {1, 2}

\* Lines 101-107 of the dashboard: the funds offered, in dictionary order.
fund_options ==
    << [symbol |-> "FCNTX", name |-> "Fidelity Contrafund"],
       [symbol |-> "VFIAX", name |-> "Vanguard 500 Index Fund"],
       [symbol |-> "FXNAX", name |-> "Fidelity US Bond Index Fund"],
       [symbol |-> "VTSMX", name |-> "Vanguard Total Stock Market Fund"],
       [symbol |-> "FSKAX", name |-> "Fidelity Total Market Index Fund"] >>

Symbols == {fund_options[i].symbol : i \in 1..Len(fund_options)}

\* The name the dashboard passes for a symbol.
NameOf(symbol) ==
    fund_options[CHOOSE i \in 1..Len(fund_options) :
                     fund_options[i].symbol = symbol].name

\* Symbols and names handed to create_or_get_fund directly: three of the
\* symbols, each under its own name and under another one.
CreateSymbols == {fund_options[i].symbol : i \in 1..3}
CreateNames(symbol) == {NameOf(symbol), "renamed"}

\* What one run meets for one fund: the history the provider serves and the
\* database statement that fails, if any.
Meets(history, fault) == [history |-> history, fault |-> fault]

\* A run in which the provider is down for one fund, serves too short a
\* history for another and none for a third, and a run in which each of the
\* three database statements fails for one fund; by position in fund_options.
Environments ==
    { << Meets("swing", "none"), Meets("down", "none"),
         Meets("short", "none"), Meets("empty", "none"),
         Meets("flat", "none") >>,
      << Meets("swing", "create_or_get_fund"),
         Meets("swing", "store_fund_prices"),
         Meets("swing", "store_var_analysis"), Meets("swing", "none"),
         Meets("flat", "none") >> }

\* The daily records of a history, one per trading day, newest first as the
\* provider lists them.
History(history) ==
    LET n == IF history = "empty" THEN 0
             ELSE IF history = "short" THEN MinObservations - 1
             ELSE MinObservations
    IN  [k \in 1..n |->
            [date |-> n + 1 - k,
             close |-> PriceAt(IF history = "flat" THEN "flat" ELSE "swing",
                               n + 1 - k),
             defect |-> "none"]]

\* The provider's answer for a history.
Response(history) ==
    IF history = "down"
    THEN [JsonObject(FALSE, FALSE, FALSE, << >>) EXCEPT !.failure = "timeout"]
    ELSE JsonObject(FALSE, FALSE, TRUE, History(history))

\* p-values scipy's normaltest may return on a sample that varies.
PValues == {Dec(1, 100), Dec(50, 100)}

\* The dashboard script between two fetch-and-analyse runs (visited, steps,
\* failed and analyses_before record the run for the properties), and a
\* script run that has not read an analysis.
Idle ==
    [kind |-> "idle", i |-> 0, symbol |-> "", step |-> "", env |-> << >>,
     successful_analyses |-> 0, visited |-> << >>, steps |-> << >>,
     failed |-> "", analyses_before |-> 0]

\* The locals of a handler before its first statement.
NoLocals == [prices |-> << >>, fund_id |-> Null, var_results |-> << >>]
NotRead == [symbol |-> "", found |-> FALSE, row |-> << >>]

Init ==
    /\ rng \in 0..(RngModulus - 1)
    /\ pc = [c \in Callers |-> "idle"]
    /\ prices = [c \in Callers |-> << >>]
    /\ st = [c \in Callers |-> << >>]
    /\ sim_args = [c \in Callers |-> << >>]
    /\ mc_returns = [c \in Callers |-> << >>]
    /\ report = [c \in Callers |-> << >>]
    /\ error = [c \in Callers |-> ""]
    /\ call_args = << >>
    /\ call_result = NoResult
    /\ funds = << >>
    /\ fund_prices = << >>
    /\ var_analyses = << >>
    /\ now = 1
    /\ run = Idle
    /\ locals = NoLocals
    /\ fund_analysis = NotRead

\* ------------------------------------------------- calculate_var, by step
\* Variant: the generator is seeded before the length check.
Begin_seed_first(c) ==
    /\ pc[c] = "idle"
    /\ \E shape \in Shapes, n \in Lengths :
         LET p == PriceSeries(shape, n)
         IN  /\ prices' = [prices EXCEPT ![c] = p]
             /\ IF InsufficientData(p)
                THEN /\ pc' = [pc EXCEPT ![c] = "failed"]
                     /\ error' = [error EXCEPT ![c] = "ValueError"]
                     /\ st' = [st EXCEPT ![c] = << >>]
                ELSE /\ pc' = [pc EXCEPT ![c] = "seed"]
                     /\ error' = [error EXCEPT ![c] = ""]
                     /\ st' = [st EXCEPT ![c] = Statistics(p)]
    /\ rng' = Seeded(MC_SEED)
    /\ sim_args' = [sim_args EXCEPT ![c] = << >>]
    /\ mc_returns' = [mc_returns EXCEPT ![c] = << >>]
    /\ report' = [report EXCEPT ![c] = << >>]
    /\ UNCHANGED << pure_vars, app_vars >>

\* Lines 29-70: the length check, then returns and statistics.
Begin(c) ==
    /\ pc[c] = "idle"
    /\ \E shape \in Shapes, n \in Lengths :
         LET p == PriceSeries(shape, n)
         IN  /\ prices' = [prices EXCEPT ![c] = p]
             /\ IF InsufficientData(p)
                THEN /\ pc' = [pc EXCEPT ![c] = "failed"]
                     /\ error' = [error EXCEPT ![c] = "ValueError"]
                     /\ st' = [st EXCEPT ![c] = << >>]
                ELSE /\ pc' = [pc EXCEPT ![c] = "seed"]
                     /\ error' = [error EXCEPT ![c] = ""]
                     /\ st' = [st EXCEPT ![c] = Statistics(p)]
    /\ sim_args' = [sim_args EXCEPT ![c] = << >>]
    /\ mc_returns' = [mc_returns EXCEPT ![c] = << >>]
    /\ report' = [report EXCEPT ![c] = << >>]
    /\ UNCHANGED << rng, pure_vars, app_vars >>

\* Variant: the call goes on to draw without re-seeding the generator.
Seed_skipped(c) ==
    /\ pc[c] = "seed"
    /\ pc' = [pc EXCEPT ![c] = "draw"]
    /\ UNCHANGED << rng, prices, st, sim_args, mc_returns, report, error, pure_vars, app_vars >>

\* Line 73: np.random.seed(42).
Seed(c) ==
    /\ pc[c] = "seed"
    /\ rng' = Seeded(MC_SEED)
    /\ pc' = [pc EXCEPT ![c] = "draw"]
    /\ UNCHANGED << prices, st, sim_args, mc_returns, report, error, pure_vars, app_vars >>

\* Line 75: np.random.normal(daily_mean, daily_std, n_simulations).
Draw(c) ==
    /\ pc[c] = "draw"
    /\ mc_returns' = [mc_returns EXCEPT ![c] =
            Normal(rng, st[c].daily_mean, st[c].daily_std, n_simulations)]
    /\ rng' = RngAfter(rng, n_simulations)
    /\ pc' = [pc EXCEPT ![c] = "pct"]
    /\ UNCHANGED << prices, st, sim_args, report, error, pure_vars, app_vars >>

\* Lines 77-108: percentiles, CVaR and the returned dictionary.
Finish(c) ==
    /\ pc[c] = "pct"
    /\ report' = [report EXCEPT ![c] = Report(st[c], mc_returns[c])]
    /\ pc' = [pc EXCEPT ![c] = "done"]
    /\ UNCHANGED << rng, prices, st, sim_args, mc_returns, error, pure_vars, app_vars >>

\* ------------------------------ generate_monte_carlo_simulation, by step
\* Line 113: np.random.seed(42).
GenSeed(c) ==
    /\ pc[c] = "idle"
    /\ \E a \in SimArgs : sim_args' = [sim_args EXCEPT ![c] = a]
    /\ rng' = Seeded(MC_SEED)
    /\ pc' = [pc EXCEPT ![c] = "gen_draw"]
    /\ prices' = [prices EXCEPT ![c] = << >>]
    /\ st' = [st EXCEPT ![c] = << >>]
    /\ mc_returns' = [mc_returns EXCEPT ![c] = << >>]
    /\ report' = [report EXCEPT ![c] = << >>]
    /\ error' = [error EXCEPT ![c] = ""]
    /\ UNCHANGED << pure_vars, app_vars >>

\* Line 114: return np.random.normal(mean, std, n_simulations).
GenDraw(c) ==
    /\ pc[c] = "gen_draw"
    /\ mc_returns' = [mc_returns EXCEPT ![c] =
            Normal(rng, sim_args[c][1], sim_args[c][2], n_simulations)]
    /\ rng' = RngAfter(rng, n_simulations)
    /\ pc' = [pc EXCEPT ![c] = "gen_done"]
    /\ UNCHANGED << prices, st, sim_args, report, error, pure_vars, app_vars >>

\* ------------------------------------------------------------- dashboard
\* display_monte_carlo: an unseeded np.random.normal of n_simulations draws.
DashboardDraw ==
    /\ rng' = RngAfter(rng, n_simulations)
    /\ UNCHANGED << pc, prices, st, sim_args, mc_returns, report, error, pure_vars, app_vars >>

\* The script run that made the call ends; the thread is free for the next
\* run (st.rerun, or the next interaction of the session).
Return(c) ==
    /\ pc[c] \in Returned
    /\ pc' = [pc EXCEPT ![c] = "idle"]
    /\ prices' = [prices EXCEPT ![c] = << >>]
    /\ st' = [st EXCEPT ![c] = << >>]
    /\ sim_args' = [sim_args EXCEPT ![c] = << >>]
    /\ mc_returns' = [mc_returns EXCEPT ![c] = << >>]
    /\ report' = [report EXCEPT ![c] = << >>]
    /\ error' = [error EXCEPT ![c] = ""]
    /\ UNCHANGED << rng, pure_vars, app_vars >>

\* Threads interleave at every step.
Next ==
    \/ \E c \in Callers : Begin(c)
    \/ \E c \in Callers : Seed(c)
    \/ \E c \in Callers : Draw(c)
    \/ \E c \in Callers : Finish(c)
    \/ \E c \in Callers : GenSeed(c)
    \/ \E c \in Callers : GenDraw(c)
    \/ \E c \in Callers : Return(c)
    \/ DashboardDraw

Spec == Init /\ [][Next]_vars

\* Calls run one after another: a call starts only when no thread is inside one.
NoneRunning == \A c \in Callers : pc[c] \notin Running

SeqNext ==
    \/ \E c \in Callers : NoneRunning /\ Begin(c)
    \/ \E c \in Callers : Seed(c)
    \/ \E c \in Callers : Draw(c)
    \/ \E c \in Callers : Finish(c)
    \/ \E c \in Callers : NoneRunning /\ GenSeed(c)
    \/ \E c \in Callers : GenDraw(c)
    \/ \E c \in Callers : Return(c)
    \/ NoneRunning /\ DashboardDraw

SeqSpec == Init /\ [][SeqNext]_vars

\* Only concurrent calculate_var calls, nothing else touching the generator.
ConcNext ==
    \/ \E c \in Callers : Begin(c)
    \/ \E c \in Callers : Seed(c)
    \/ \E c \in Callers : Draw(c)
    \/ \E c \in Callers : Finish(c)
    \/ \E c \in Callers : Return(c)

ConcSpec == Init /\ [][ConcNext]_vars
\* ------------------------------------------- the pure engine functions
\* A caller applies one of them to an input; nothing else changes.
CallReturns ==
    /\ call_args = << >>
    /\ \E p \in SeqsUpTo(MaxLen, PriceValues) :
         /\ call_args' = << "calculate_returns", p >>
         /\ call_result' = Returns(calculate_returns(p))
    /\ UNCHANGED << engine_vars, app_vars >>

CallBacktest ==
    /\ call_args = << >>
    /\ \E in \in BacktestInputs, level \in Levels :
         /\ call_args' = << "backtest_var", in[1], in[2], level >>
         /\ call_result' = backtest_var(in[1], in[2], level)
    /\ UNCHANGED << engine_vars, app_vars >>

CallPortfolio ==
    /\ call_args = << >>
    /\ \E weights \in WeightVectors, returns_matrix \in ReturnsMatrices,
          level \in Levels :
         /\ call_args' = << "calculate_portfolio_var", weights, returns_matrix,
                            level >>
         /\ call_result' = calculate_portfolio_var(weights, returns_matrix,
                                                    level)
    /\ UNCHANGED << engine_vars, app_vars >>

PureNext == CallReturns \/ CallBacktest \/ CallPortfolio

\* ------------------------------------------------- the price service
CallGetDailyPrices ==
    /\ call_args = << >>
    /\ \E response \in Responses, json_error \in JsonErrors :
         /\ call_args' = << "get_daily_prices", response, json_error >>
         /\ call_result' = get_daily_prices(response, json_error)
    /\ UNCHANGED << engine_vars, app_vars >>

CallGetRecentPrices ==
    /\ call_args = << >>
    /\ \E response \in Responses, json_error \in JsonErrors,
          today \in Times, days \in Windows :
         /\ call_args' = << "get_recent_prices", response, json_error,
                            today, days >>
         /\ call_result' = get_recent_prices(response, json_error, today, days)
    /\ UNCHANGED << engine_vars, app_vars >>

ServiceNext == CallGetDailyPrices \/ CallGetRecentPrices

ServiceSpec == Init /\ [][ServiceNext]_vars

PureSpec == Init /\ [][PureNext]_vars

\* ------------------------------------------------- the funds table
\* A call of create_or_get_fund; description keeps its default None.
CallCreateOrGetFund ==
    \E symbol \in CreateSymbols :
      \E name \in CreateNames(symbol) :
        LET r == create_or_get_fund(funds, symbol, name, Null)
        IN  /\ funds' = r.funds
            /\ call_args' = << "create_or_get_fund", symbol, name >>
            /\ call_result' = Returns(r.fund_id)
            /\ UNCHANGED << engine_vars, fund_prices, var_analyses, now, run,
                            locals, fund_analysis >>

DbNext == CallCreateOrGetFund

DbSpec == Init /\ [][DbNext]_vars

\* ------------------------------------------------- fetch-and-analyse
Active == run.kind \in {"bulk", "single"}

\* The position of a symbol in fund_options.
IndexOf(symbol) ==
    CHOOSE i \in 1..Len(fund_options) : fund_options[i].symbol = symbol

\* The run at the first statement for the fund at position i.
AtFund(r, i) ==
    [r EXCEPT !.i = i, !.symbol = fund_options[i].symbol,
              !.step = "get_recent_prices",
              !.visited = Append(@, fund_options[i].symbol),
              !.steps = << >>, !.failed = ""]

\* A statement raised: the except clause of line 171 or 279 is next.
Failed(step) ==
    [run EXCEPT !.steps = Append(@, step), !.failed = step, !.step = "end"]

\* A statement returned; line 169 counts the fund once store_var_analysis
\* has returned in the bulk fetch.
Passed(step) ==
    [run EXCEPT !.steps = Append(@, step), !.step = StepAfter(step),
                !.successful_analyses =
                    IF run.kind = "bulk" /\ step = "store_var_analysis"
                    THEN @ + 1 ELSE @]

\* Lines 128-130 and 233-236: the price list is empty.
Exited(step) ==
    [run EXCEPT !.steps = Append(@, step), !.step = "end"]

\* The database statement fails in this run for this fund.
Faults(step) == run.env[run.i].fault = step

\* Lines 110-116: the Fetch All Funds button.
StartBulk ==
    /\ run.kind = "idle"
    /\ Len(fund_prices) < MaxPriceRows
    /\ \E env \in Environments :
         run' = AtFund([Idle EXCEPT !.kind = "bulk", !.env = env,
                                    !.analyses_before = Len(var_analyses)], 1)
    /\ locals' = NoLocals
    /\ fund_analysis' = NotRead
    /\ UNCHANGED << engine_vars, pure_vars, db_vars, now >>

\* Lines 221-226: the Re-analyze Selected Fund button.
Reanalyze(selected_symbol) ==
    /\ run.kind = "idle"
    /\ Len(fund_prices) < MaxPriceRows
    /\ \E env \in Environments :
         run' = AtFund([Idle EXCEPT !.kind = "single", !.env = env,
                                    !.analyses_before = Len(var_analyses)],
                       IndexOf(selected_symbol))
    /\ locals' = NoLocals
    /\ fund_analysis' = NotRead
    /\ UNCHANGED << engine_vars, pure_vars, db_vars, now >>

\* Lines 126-130 and 231-236: get_recent_prices and the empty-list exit.
GetRecentPrices ==
    /\ Active
    /\ run.step = "get_recent_prices"
    /\ LET fetched == get_recent_prices(Response(run.env[run.i].history),
                          "ValueError", now + MinObservations, AnalysisDays)
       IN  IF ~fetched.ok
           THEN /\ run' = Failed("get_recent_prices")
                /\ locals' = locals
           ELSE /\ run' = IF Len(fetched.value) = 0
                          THEN Exited("get_recent_prices")
                          ELSE Passed("get_recent_prices")
                /\ locals' = [locals EXCEPT !.prices = fetched.value]
    /\ UNCHANGED << engine_vars, pure_vars, db_vars, now, fund_analysis >>

\* Lines 135 and 241.
CreateOrGetFund ==
    /\ Active
    /\ run.step = "create_or_get_fund"
    /\ IF Faults("create_or_get_fund")
       THEN /\ run' = Failed("create_or_get_fund")
            /\ UNCHANGED << funds, locals >>
       ELSE LET r == create_or_get_fund(funds, run.symbol,
                                        NameOf(run.symbol), Null)
            IN  /\ funds' = r.funds
                /\ locals' = [locals EXCEPT !.fund_id = r.fund_id]
                /\ run' = Passed("create_or_get_fund")
    /\ UNCHANGED << engine_vars, pure_vars, fund_prices, var_analyses, now,
                    fund_analysis >>

\* Lines 136 and 242.
StoreFundPrices ==
    /\ Active
    /\ run.step = "store_fund_prices"
    /\ IF Faults("store_fund_prices")
       THEN /\ run' = Failed("store_fund_prices")
            /\ fund_prices' = fund_prices
       ELSE /\ fund_prices' = store_fund_prices(fund_prices, locals.fund_id,
                                                locals.prices)
            /\ run' = Passed("store_fund_prices")
    /\ UNCHANGED << engine_vars, pure_vars, funds, var_analyses, now, locals,
                    fund_analysis >>

\* Lines 139-140 and 245-246: the close prices and calculate_var.
CalculateVar ==
    /\ Active
    /\ run.step = "calculate_var"
    /\ \E p_value \in PValues :
         LET close_prices ==
                 [k \in 1..Len(locals.prices) |-> locals.prices[k].close]
             r == calculate_var(close_prices, p_value)
         IN  IF r.ok
             THEN /\ run' = Passed("calculate_var")
                  /\ locals' = [locals EXCEPT !.var_results = r.value]
                  /\ rng' = RngAfter(Seeded(MC_SEED), n_simulations)
             ELSE /\ run' = Failed("calculate_var")
                  /\ UNCHANGED << locals, rng >>
    /\ UNCHANGED << pc, prices, st, sim_args, mc_returns, report, error,
                    pure_vars, db_vars, now, fund_analysis >>

\* Lines 143-169 and 249-273: the translation and store_var_analysis.
StoreVarAnalysis ==
    /\ Active
    /\ run.step = "store_var_analysis"
    /\ IF Faults("store_var_analysis")
       THEN /\ run' = Failed("store_var_analysis")
            /\ UNCHANGED << var_analyses, now >>
       ELSE /\ var_analyses' =
                   store_var_analysis(var_analyses, locals.fund_id,
                       camelCase_results(locals.var_results),
                       now).var_analyses
            /\ now' = now + 1
            /\ run' = Passed("store_var_analysis")
    /\ UNCHANGED << engine_vars, pure_vars, funds, fund_prices, locals,
                    fund_analysis >>

\* Variant: the bulk fetch gives up at the first fund that fails.
AfterFund_stop_on_failure(r) ==
    IF r.kind = "single" THEN Idle
    ELSE IF r.i < Len(fund_options) /\ r.failed = "" THEN AtFund(r, r.i + 1)
    ELSE [r EXCEPT !.step = "report"]

\* Lines 118 and 171-173: the loop goes on to the next fund, whatever the
\* fund before it met; lines 233-236 and 277-281: a re-analysis ends the
\* script run.
AfterFund(r) ==
    IF r.kind = "single" THEN Idle
    ELSE IF r.i < Len(fund_options) THEN AtFund(r, r.i + 1)
    ELSE [r EXCEPT !.step = "report"]

EndOfFund ==
    /\ Active
    /\ run.step = "end"
    /\ run' = AfterFund(run)
    /\ locals' = NoLocals
    /\ UNCHANGED << engine_vars, pure_vars, db_vars, now, fund_analysis >>

\* Lines 175-183: the count is shown and the script run ends.
ReportBulk ==
    /\ run.kind = "bulk"
    /\ run.step = "report"
    /\ run' = Idle
    /\ UNCHANGED << engine_vars, pure_vars, db_vars, now, locals,
                    fund_analysis >>

\* Line 284: the script reads the analysis of the selected fund, once in a
\* script run (line 78 starts every script run with no analysis read).
ReadAnalysis(selected_symbol) ==
    /\ run.kind = "idle"
    /\ fund_analysis = NotRead
    /\ \E r \in get_fund_analysis(funds, var_analyses, selected_symbol) :
         fund_analysis' = [symbol |-> selected_symbol, found |-> r.found,
                           row |-> r.row]
    /\ UNCHANGED << engine_vars, pure_vars, db_vars, now, run, locals >>

\* The local wall clock datetime.now() reads is set back between two script
\* runs (end of daylight saving time, a clock correction).
ClockSetBack ==
    /\ run.kind = "idle"
    /\ fund_analysis = NotRead
    /\ \E t \in 0..(now - 1) : now' = t
    /\ UNCHANGED << engine_vars, pure_vars, db_vars, run, locals,
                    fund_analysis >>

RunStep ==
    \/ GetRecentPrices
    \/ CreateOrGetFund
    \/ StoreFundPrices
    \/ CalculateVar
    \/ StoreVarAnalysis
    \/ EndOfFund

AppNext ==
    \/ StartBulk
    \/ \E selected_symbol \in Symbols : Reanalyze(selected_symbol)
    \/ RunStep
    \/ ReportBulk
    \/ \E selected_symbol \in Symbols : ReadAnalysis(selected_symbol)
    \/ ClockSetBack

AppSpec == Init /\ [][AppNext]_vars

\* The bulk fetch alone.
BulkNext == StartBulk \/ RunStep \/ ReportBulk

\* What a statement of the handler does to the position of the script: it
\* returns, raises, or leaves through the empty-list exit, and the end of a
\* fund's turn leads to the next fund or out of the loop.  Every RunStep is
\* such a move.
Proceeds ==
    /\ Active
    /\ run.step # "report"
    /\ run' \in IF run.step = "end" THEN {AfterFund(run)}
                ELSE {Passed(run.step), Failed(run.step), Exited(run.step)}

\* The script runs its statements one after another and every call returns
\* or raises: a handler that is running takes its next statement.
BulkSpec == Init /\ [][BulkNext]_vars /\ WF_run(Proceeds)

\* ============================================================= properties
\* A thread whose calculate_var call has passed the length check or failed it.
Started(c) == pc[c] \in {"failed", "seed", "draw", "pct", "done"}

Positive(p) == \A i \in 1..Len(p) : p[i] > 0
Constant(p) == \A i \in 1..Len(p) : p[i] = p[1]

\* Number of consecutive pairs whose prior price is not zero.
UsableReturns(p) == Cardinality({i \in 2..Len(p) : p[i - 1] # 0})

\* The four simulated figures of a report.
MonteCarloFigures(r) ==
    << r.monte_carlo_var_5, r.monte_carlo_var_1,
       r.monte_carlo_cvar_5, r.monte_carlo_cvar_1 >>

RECURSIVE SumOver(_, _)
SumOver(a, Q) ==
    IF Q = {} THEN 0
    ELSE LET i == CHOOSE j \in Q : TRUE IN a[i] + SumOver(a, Q \ {i})

\* cvar is the mean of the entries of a that are <= var, or var if none is.
CVaRRule(a, var, cvar) ==
    LET Q == {i \in 1..Len(a) : a[i] <= var}
    IN  IF Q # {} THEN cvar = SumOver(a, Q) \div Cardinality(Q) ELSE cvar = var

\* C1: every report of calculate_var with daily_std > 0 has
\* parametric_var_1 < parametric_var_5 < daily_mean.
C1_ParametricOrdering ==
    \A c \in Callers :
        pc[c] = "done" /\ report[c].daily_std > 0 =>
            /\ report[c].parametric_var_1 < report[c].parametric_var_5
            /\ report[c].parametric_var_5 < report[c].daily_mean

\* C2 as stated: calculate_var fails whenever fewer than 50 returns remain
\* after derivation.
C2_FewReturnsRejected ==
    \A c \in Callers :
        Started(c) /\ UsableReturns(prices[c]) < 50 =>
            pc[c] = "failed" /\ error[c] = "ValueError"

\* C2 as amended: calculate_var fails whenever the price series itself has
\* fewer than 50 prices, zero prices or not; the returns are not counted.
C2_FewPricesRejected ==
    \A c \in Callers :
        Started(c) /\ Len(prices[c]) < 50 =>
            pc[c] = "failed" /\ error[c] = "ValueError"

C2_Witness ==
    \E c \in Callers :
        /\ pc[c] = "failed"
        /\ Len(prices[c]) = 49
        /\ \E i \in 1..Len(prices[c]) : prices[c][i] = 0

\* C3: on positive prices calculate_var fails below 50 prices (49 too) and
\* goes on to return a report from exactly 50 prices on.
C3_LengthBoundary ==
    \A c \in Callers :
        Started(c) /\ Positive(prices[c]) =>
            /\ Len(prices[c]) < 50 =>
                   pc[c] = "failed" /\ error[c] = "ValueError"
            /\ Len(prices[c]) >= 50 =>
                   /\ pc[c] \in {"seed", "draw", "pct", "done"}
                   /\ error[c] = ""
                   /\ pc[c] = "done" => "data_points" \in DOMAIN report[c]

C3_Witness ==
    \E c, d \in Callers :
        /\ pc[c] = "failed" /\ Len(prices[c]) = 49 /\ Positive(prices[c])
        /\ pc[d] = "done" /\ Len(prices[d]) = 50 /\ Positive(prices[d])

\* C4: when all threads run calculate_var concurrently on the same prices,
\* every call returns the simulated figures of a call run alone (seeded,
\* then drawn from, with nothing in between).
C4_ConcurrentCallsReproduce ==
    \A c \in Callers :
        pc[c] = "done" /\ (\A d \in Callers : prices[d] = prices[c]) =>
            MonteCarloFigures(report[c]) =
                MonteCarloFigures(Report(st[c],
                    Normal(Seeded(MC_SEED), st[c].daily_mean, st[c].daily_std,
                           n_simulations)))

\* C5: run one after another, two calls whose returns have the same mean
\* and standard deviation return the same simulated figures.
C5_SequentialCallsReproduce ==
    \A c, d \in Callers :
        /\ pc[c] = "done" /\ pc[d] = "done"
        /\ report[c].daily_mean = report[d].daily_mean
        /\ report[c].daily_std = report[d].daily_std
        => MonteCarloFigures(report[c]) = MonteCarloFigures(report[d])

C5_Witness ==
    \E c, d \in Callers :
        /\ c # d
        /\ pc[c] = "done" /\ pc[d] = "done"
        /\ report[c].daily_std > 0
        /\ report[c].daily_mean = report[d].daily_mean
        /\ report[c].daily_std = report[d].daily_std

\* C6: no step of an engine call changes the process-wide generator.
C6_EngineLeavesGeneratorUnchanged ==
    [][pc' # pc => rng' = rng]_vars

C8_ReturnsDerivation ==
    Len(call_args) > 0 /\ call_args[1] = "calculate_returns"
        /\ Len(call_args[2]) >= 2 =>
    LET p == call_args[2]
        out == call_result.value
        kept == {i \in 2..Len(p) : p[i - 1] # 0}
        k == Cardinality({i \in 2..Len(p) : p[i - 1] = 0})
    IN  /\ call_result.ok
        /\ Len(out) = Len(p) - 1 - k
        /\ \A i \in kept :
               out[Cardinality({j \in kept : j <= i})]
                   = ((p[i] - p[i - 1]) * SCALE) \div p[i - 1]
        /\ \A j \in 1..Len(out) : IsFinite(out[j])

C8_Witness ==
    /\ Len(call_args) > 0 /\ call_args[1] = "calculate_returns"
    /\ \E i \in 2..Len(call_args[2]) :
           call_args[2][i - 1] = 0 /\ call_args[2][i] # 0
    /\ Len(call_result.value) >= 1
    /\ Len(call_result.value) < Len(call_args[2]) - 1

\* C9: each historical CVaR is the mean of the returns <= the historical VaR
\* of its level, or that VaR when no return qualifies; each Monte Carlo CVaR
\* follows the same rule on the simulated sample.
C9_CVaRRule ==
    \A c \in Callers :
        pc[c] = "done" =>
            /\ CVaRRule(st[c].returns, report[c].historical_var_5,
                        report[c].historical_cvar_5)
            /\ CVaRRule(st[c].returns, report[c].historical_var_1,
                        report[c].historical_cvar_1)
            /\ CVaRRule(mc_returns[c], report[c].monte_carlo_var_5,
                        report[c].monte_carlo_cvar_5)
            /\ CVaRRule(mc_returns[c], report[c].monte_carlo_var_1,
                        report[c].monte_carlo_cvar_1)

C9_Witness ==
    \E c \in Callers :
        /\ pc[c] = "done"
        /\ report[c].historical_cvar_5 < report[c].historical_var_5
        /\ report[c].monte_carlo_cvar_5 < report[c].monte_carlo_var_5

\* C10: on equal-length inputs of length n >= 1 with 0 or n violations,
\* backtest_var returns kupiec_statistic = +infinity, kupiec_p_value = 0.0
\* and model_adequate = False.
C10_KupiecSentinel ==
    Len(call_args) > 0 /\ call_args[1] = "backtest_var"
        /\ Len(call_args[2]) = Len(call_args[3]) /\ Len(call_args[2]) >= 1 =>
    LET n == Len(call_args[2])
        count == Cardinality({i \in 1..n : call_args[2][i] < call_args[3][i]})
    IN  count = 0 \/ count = n =>
            /\ call_result.ok
            /\ call_result.value.violations = count
            /\ call_result.value.kupiec_statistic = PosInf
            /\ call_result.value.kupiec_p_value = 0
            /\ call_result.value.model_adequate = FALSE

C10_Witness ==
    /\ call_args = << "backtest_var",
                      [i \in 1..10 |-> Dec(-10, 100)],
                      [i \in 1..10 |-> Dec(-1, 100)],
                      Dec(5, 100) >>
    /\ call_result.value.violations = 10
    /\ call_result.value.kupiec_statistic = PosInf

\* The arguments of the backtest_var call made, if one was.
BacktestCalled == Len(call_args) > 0 /\ call_args[1] = "backtest_var"

\* C11: on equal-length sequences, of any length (zero included),
\* backtest_var returns a report and raises nothing.
C11_BacktestNeverRaises ==
    BacktestCalled /\ Len(call_args[2]) = Len(call_args[3]) =>
        call_result.ok /\ "violations" \in DOMAIN call_result.value

\* C12: the violations count of a returned report is the number of indices
\* where the return is strictly below the estimate; equal entries do not count.
C12_StrictViolations ==
    BacktestCalled /\ call_result.ok =>
        LET n == Len(call_args[2])
            below == {i \in 1..n : call_args[2][i] < call_args[3][i]}
            equal == {i \in 1..n : call_args[2][i] = call_args[3][i]}
        IN  /\ call_result.value.violations = Cardinality(below)
            /\ call_result.value.violations <= n - Cardinality(equal)

C12_Witness ==
    /\ BacktestCalled /\ call_result.ok
    /\ \E i, j \in 1..Len(call_args[2]) :
           /\ call_args[2][i] = call_args[3][i]
           /\ call_args[2][j] < call_args[3][j]
    /\ call_result.value.violations >= 1
    /\ call_result.value.violations < Len(call_args[2])

\* C13: when the two sequences differ in length backtest_var raises
\* ValueError and returns no report.
C13_LengthMismatchRaises ==
    BacktestCalled /\ Len(call_args[2]) # Len(call_args[3]) =>
        /\ ~call_result.ok
        /\ call_result.error = "ValueError"
        /\ call_result.value = << >>

C13_Witness ==
    /\ BacktestCalled
    /\ Len(call_args[2]) >= 1
    /\ Len(call_args[2]) < Len(call_args[3])
    /\ call_result.error = "ValueError"

\* The arguments of the calculate_portfolio_var call made, if one was.
PortfolioCalled ==
    Len(call_args) > 0 /\ call_args[1] = "calculate_portfolio_var"

\* C14: when the number of weights differs from the number of columns of the
\* returns matrix, calculate_portfolio_var raises ValueError and returns no
\* value.
C14_WeightCountMismatchRaises ==
    PortfolioCalled /\ Len(call_args[2]) # Len(call_args[3][1]) =>
        /\ ~call_result.ok
        /\ call_result.error = "ValueError"
        /\ call_result.value = << >>

C14_Witness ==
    /\ PortfolioCalled
    /\ Len(call_args[2]) > Len(call_args[3][1])
    /\ call_result.error = "ValueError"

Abs(x) == IF x < 0 THEN 0 - x ELSE x

\* Factors k > 0 applied to a weight vector: a half, two and three.
Factors == {Dec(1, 2), 2 * SCALE, 3 * SCALE}
Scaled(k, weights) == [j \in 1..Len(weights) |-> Mul(k, weights[j])]

\* Products and sums are rounded, in the code as here: the last digits lost
\* in a portfolio return of cols assets that is then multiplied by k.
Slack(k, cols) == ((k \div SCALE) + 2) * (cols + 2)

\* C15: the weights are used as given: the result for weights k * w is k
\* times the result for w (to rounding), so it differs from the result for
\* w whenever k # 1 and that result is not zero.
C15_WeightsNotNormalized ==
    PortfolioCalled /\ call_result.ok =>
        \A k \in Factors :
            LET scaled == calculate_portfolio_var(Scaled(k, call_args[2]),
                                                  call_args[3], call_args[4])
                slack == Slack(k, Len(call_args[2]))
            IN  /\ scaled.ok
                /\ Abs(scaled.value - Mul(k, call_result.value)) <= slack
                /\ Abs(call_result.value) > 2 * slack =>
                       scaled.value # call_result.value

C15_Witness ==
    /\ PortfolioCalled /\ call_result.ok
    /\ SumSeq(call_args[2]) = SCALE
    /\ Len(call_args[2]) = 2 /\ call_args[2][1] # call_args[2][2]
    /\ call_result.value < Dec(-1, 100)
    /\ calculate_portfolio_var(Scaled(2 * SCALE, call_args[2]), call_args[3],
                               call_args[4]).value < 2 * call_result.value + 4

\* Column j of a returns matrix.
Column(returns_matrix, j) ==
    [i \in 1..Len(returns_matrix) |-> returns_matrix[i][j]]

IdenticalColumns(returns_matrix) ==
    \A i \in 1..Len(returns_matrix) : \A j \in 1..Len(returns_matrix[i]) :
        returns_matrix[i][j] = returns_matrix[i][1]

FiveDayExample ==
    << Dec(-2, 100), Dec(1, 100), Dec(3, 100), Dec(-1, 100), Dec(2, 100) >>

\* C16: on a matrix whose columns all equal one series s, weights that sum
\* to 1 give the linear-interpolated percentile of s however the weight is
\* split (to rounding); on two copies of the five-day example at level 0.05
\* that is -0.02 + 0.2 * (-0.01 - -0.02) = -0.018.
C16_IdenticalColumns ==
    PortfolioCalled /\ call_result.ok /\ IdenticalColumns(call_args[3])
        /\ SumSeq(call_args[2]) = SCALE =>
    LET s == Column(call_args[3], 1)
        slack == Slack(SCALE, Len(call_args[2]))
    IN  /\ Abs(call_result.value - PercentileAtLevel(s, call_args[4])) <= slack
        /\ s = FiveDayExample /\ call_args[4] = Dec(5, 100) =>
               Abs(call_result.value - Dec(-18, 1000)) <= slack

C16_Witness ==
    /\ PortfolioCalled /\ call_result.ok
    /\ call_args[2] = << Dec(1, 2), Dec(1, 2) >>
    /\ Column(call_args[3], 1) = FiveDayExample
    /\ Column(call_args[3], 2) = FiveDayExample
    /\ call_args[4] = Dec(5, 100)
    /\ call_result.value = Dec(-18, 1000)

\* C17: data_points of a returned report is the number of returns used:
\* len(prices) - 1 - k, k the number of pairs whose prior price is zero.
C17_DataPoints ==
    \A c \in Callers :
        pc[c] = "done" =>
            LET k == Cardinality({i \in 2..Len(prices[c]) :
                                     prices[c][i - 1] = 0})
            IN  /\ report[c].data_points = Len(prices[c]) - 1 - k
                /\ report[c].data_points = Len(st[c].returns)

C17_Witness ==
    \E c \in Callers :
        /\ pc[c] = "done"
        /\ \E i \in 2..Len(prices[c]) : prices[c][i - 1] = 0
        /\ report[c].data_points = Len(prices[c]) - 2

\* The values a sequence takes.
ValuesOf(a) == {a[i] : i \in 1..Len(a)}

\* A sequence taking exactly two values, each equally often.
TwoValuedEvenly(a) ==
    /\ Cardinality(ValuesOf(a)) = 2
    /\ \A v \in ValuesOf(a) :
           2 * Cardinality({i \in 1..Len(a) : a[i] = v}) = Len(a)

\* The second moment of daily returns keeps two digits at this scale, so a
\* fourth standardized moment is exact to a few hundredths.
KurtosisSlack == Dec(5, 100)

\* C18: the kurtosis of a report is on the Pearson scale, m4 / m2^2 with
\* nothing subtracted: never below 1, and 1 (to rounding) for returns that
\* take two values equally often, where the excess scale gives -2.
C18_PearsonKurtosis ==
    \A c \in Callers :
        pc[c] = "done" /\ IsFinite(report[c].kurtosis) =>
            /\ report[c].kurtosis >= SCALE - KurtosisSlack
            /\ TwoValuedEvenly(st[c].returns) =>
                   Abs(report[c].kurtosis - SCALE) <= KurtosisSlack

C18_Witness ==
    \E c \in Callers :
        /\ pc[c] = "done"
        /\ TwoValuedEvenly(st[c].returns)
        /\ IsFinite(report[c].kurtosis)

\* The calculate_returns call made, if one was.
ReturnsCalled == Len(call_args) > 0 /\ call_args[1] = "calculate_returns"

\* C19: on an input of length 0 or 1 calculate_returns returns the empty
\* sequence and raises nothing.
C19_ShortInputEmpty ==
    ReturnsCalled /\ Len(call_args[2]) < 2 =>
        call_result.ok /\ call_result.value = << >>

C19_Witness ==
    /\ ReturnsCalled
    /\ Len(call_args[2]) = 1 /\ call_args[2][1] # 0
    /\ call_result.value = << >>

\* C20: the step in which calculate_var fails on the length check derives
\* no returns, draws nothing and leaves the generator and every other
\* thread's call as they were.
C20_FailureBeforeAnyStep ==
    [][\A c \in Callers :
          pc[c] = "idle" /\ pc'[c] = "failed" =>
              /\ rng' = rng
              /\ st'[c] = << >> /\ mc_returns'[c] = << >>
              /\ report'[c] = << >>
              /\ \A d \in Callers \ {c} :
                     /\ pc'[d] = pc[d] /\ prices'[d] = prices[d]
                     /\ st'[d] = st[d] /\ mc_returns'[d] = mc_returns[d]
                     /\ report'[d] = report[d] /\ error'[d] = error[d]]_vars

C20_Witness ==
    \E c, d \in Callers :
        /\ pc[c] = "failed" /\ error[c] = "ValueError"
        /\ st[c] = << >>
        /\ pc[d] = "draw" /\ rng # Seeded(MC_SEED)

\* Least and greatest entry of a non-empty sequence.
MinOf(a) == CHOOSE x \in ValuesOf(a) : \A y \in ValuesOf(a) : x <= y
MaxOf(a) == CHOOSE x \in ValuesOf(a) : \A y \in ValuesOf(a) : x >= y

\* C21: in every report min(returns) <= historical_var_1 <= historical_var_5
\* <= max(returns), and the Monte Carlo percentiles lie in the same order
\* within the simulated sample.
C21_PercentileOrdering ==
    \A c \in Callers :
        pc[c] = "done" /\ Len(st[c].returns) > 0 =>
            /\ MinOf(st[c].returns) <= report[c].historical_var_1
            /\ report[c].historical_var_1 <= report[c].historical_var_5
            /\ report[c].historical_var_5 <= MaxOf(st[c].returns)
            /\ MinOf(mc_returns[c]) <= report[c].monte_carlo_var_1
            /\ report[c].monte_carlo_var_1 <= report[c].monte_carlo_var_5
            /\ report[c].monte_carlo_var_5 <= MaxOf(mc_returns[c])

C21_Witness ==
    \E c \in Callers :
        /\ pc[c] = "done"
        /\ report[c].historical_var_1 < report[c].historical_var_5
        /\ report[c].historical_var_5 < MaxOf(st[c].returns)
        /\ report[c].monte_carlo_var_1 < report[c].monte_carlo_var_5

\* Some entry of a is <= var, so CVaR averages and does not fall back.
Qualifies(a, var) ==
    /\ \E i \in 1..Len(a) : a[i] <= var
    /\ Below(a, var) # << >>

\* C22: at each level some observation is <= the percentile, of the returns
\* and of the simulated sample alike, so the CVaR is a mean of observations
\* (the fallback to the VaR is not taken) and is <= the VaR.
C22_FallbackNeverTaken ==
    \A c \in Callers :
        pc[c] = "done" /\ Len(st[c].returns) > 0 =>
            /\ Qualifies(st[c].returns, report[c].historical_var_5)
            /\ Qualifies(st[c].returns, report[c].historical_var_1)
            /\ Qualifies(mc_returns[c], report[c].monte_carlo_var_5)
            /\ Qualifies(mc_returns[c], report[c].monte_carlo_var_1)
            /\ report[c].historical_cvar_5 <= report[c].historical_var_5
            /\ report[c].historical_cvar_1 <= report[c].historical_var_1
            /\ report[c].monte_carlo_cvar_5 <= report[c].monte_carlo_var_5
            /\ report[c].monte_carlo_cvar_1 <= report[c].monte_carlo_var_1

C22_Witness ==
    \E c \in Callers :
        /\ pc[c] = "done"
        /\ report[c].daily_std = 0
        /\ Len(Below(st[c].returns, report[c].historical_var_5))
               = Len(st[c].returns)
        /\ report[c].historical_cvar_5 = report[c].historical_var_5

\* The get_daily_prices call made, if one was; its response.
DailyCalled == Len(call_args) > 0 /\ call_args[1] = "get_daily_prices"

\* The response names an error, a rate limit, or carries no time series.
Flagged(response) ==
    response.error_message \/ response.note \/ ~response.has_series

\* The defect of the first record of the series that has one, "none" if all
\* records are sound.
FirstDefect(series) ==
    LET bad == {i \in 1..Len(series) : series[i].defect # "none"}
    IN  IF bad = {} THEN "none"
        ELSE series[CHOOSE i \in bad : \A j \in bad : i <= j].defect

\* A result is the complete list of the series' records, ascending by date.
CompleteAndSorted(value, series) ==
    /\ Len(value) = Len(series)
    /\ \A i \in 1..Len(series) :
           \E k \in 1..Len(value) :
               value[k].date = series[i].date /\ value[k].close = series[i].close
    /\ \A k \in 1..(Len(value) - 1) : value[k].date <= value[k + 1].date

\* Either the complete sorted list, or one of the three errors and nothing.
ListOrOneOfThreeErrors(response) ==
    IF call_result.ok
    THEN CompleteAndSorted(call_result.value, response.time_series)
    ELSE /\ call_result.value = << >>
         /\ call_result.error \in {"ConnectionError", "ValueError", "RuntimeError"}

RecentCalled == Len(call_args) > 0 /\ call_args[1] = "get_recent_prices"

Ascending(value) ==
    \A k \in 1..(Len(value) - 1) : value[k].date < value[k + 1].date

\* C30: whatever the order of the response, get_daily_prices returns its
\* records ascending by date, and get_recent_prices returns, in that order,
\* exactly the records dated on or after the cutoff, today minus the days
\* asked for.
C30_OldestFirst ==
    /\ DailyCalled /\ call_result.ok =>
           /\ Ascending(call_result.value)
           /\ CompleteAndSorted(call_result.value, call_args[2].time_series)
    /\ RecentCalled /\ call_result.ok =>
           LET series == call_args[2].time_series
               cutoff_date == call_args[4] - call_args[5]
               kept == {i \in 1..Len(series) : series[i].date >= cutoff_date}
           IN  /\ Ascending(call_result.value)
               /\ Len(call_result.value) = Cardinality(kept)
               /\ \A i \in kept :
                      \E k \in 1..Len(call_result.value) :
                          /\ call_result.value[k].date = series[i].date
                          /\ call_result.value[k].close = series[i].close

C30_Witness ==
    /\ RecentCalled /\ call_result.ok
    /\ Len(call_args[2].time_series) = 3
    /\ call_args[2].time_series[1].date > call_args[2].time_series[2].date
    /\ Len(call_result.value) = 2
    /\ call_result.value[1].date < call_result.value[2].date

\* The last call was create_or_get_fund.
CreateCalled == Len(call_args) > 0 /\ call_args[1] = "create_or_get_fund"

\* The rows of the funds table that carry this symbol.
RowsOf(table, symbol) == {i \in 1..Len(table) : table[i].symbol = symbol}

\* No two rows of the funds table share a symbol or an id.
OneRowPerSymbol ==
    \A i, j \in 1..Len(funds) :
        i # j => /\ funds[i].symbol # funds[j].symbol
                 /\ funds[i].id # funds[j].id

\* C26: after any sequence of create_or_get_fund calls the funds table holds
\* exactly one row per symbol passed; a call for a symbol with no row appends
\* the row with the name and description passed and returns its id; a call
\* for a symbol that has a row returns that row's id and leaves the whole
\* table, its name and description included, as it was.
C26_CreateOrGet ==
    /\ [](OneRowPerSymbol)
    /\ [][CreateCalled' =>
            LET symbol == call_args'[2]
                before == RowsOf(funds, symbol)
                after == RowsOf(funds', symbol)
            IN  /\ Cardinality(after) = 1
                /\ call_result'.ok
                /\ call_result'.value = funds'[CHOOSE i \in after : TRUE].id
                /\ before # {} => funds' = funds
                /\ before = {} =>
                      /\ Len(funds') = Len(funds) + 1
                      /\ SubSeq(funds', 1, Len(funds)) = funds
                      /\ funds'[Len(funds')].name = call_args'[3]
                      /\ funds'[Len(funds')].description = Null]_vars

\* A call for a symbol whose row carries another name, among other rows.
C26_Witness ==
    /\ CreateCalled
    /\ Len(funds) >= 2
    /\ \E i \in 1..Len(funds) :
          /\ funds[i].symbol = call_args[2]
          /\ funds[i].name # call_args[3]
          /\ funds[i].id = call_result.value

\* a is an initial part of b.
IsPrefix(a, b) == Len(a) <= Len(b) /\ SubSeq(b, 1, Len(a)) = a

\* The last rows of fund_prices are the price list of the fund the run is
\* at, under its fund id.
PricesStored ==
    LET n == Len(locals.prices)
    IN  /\ n > 0
        /\ Len(fund_prices) >= n
        /\ \A k \in 1..n :
              fund_prices[Len(fund_prices) - n + k] =
                  [fund_id |-> locals.fund_id,
                   date |-> locals.prices[k].date,
                   close |-> locals.prices[k].close]

\* The report calculate_var returns for the price list of the fund the run
\* is at.
Calculated ==
    \E p_value \in PValues :
        LET r == calculate_var(
                     [k \in 1..Len(locals.prices) |-> locals.prices[k].close],
                     p_value)
        IN  r.ok /\ r.value = locals.var_results

\* C23: within one fetch-and-analyse of a fund the statements run in the
\* order get_recent_prices, create_or_get_fund, store_fund_prices,
\* calculate_var, store_var_analysis; a statement that fails is the last one
\* run for the fund and changes no table; no row is ever removed or changed;
\* an analysis row is appended only by store_var_analysis, after the four
\* statements before it returned, the fund's prices being stored and
\* calculate_var having returned the report; when calculate_var raises, the
\* fund's prices are stored and stay, and no analysis row is appended.
C23_StepsInOrder ==
    /\ [](Active =>
            /\ IsPrefix(run.steps, Steps)
            /\ run.step # "end" /\ run.step # "report" =>
                  /\ run.failed = ""
                  /\ run.step = Steps[Len(run.steps) + 1]
            /\ run.failed # "" =>
                  /\ run.step = "end"
                  /\ run.failed = run.steps[Len(run.steps)])
    /\ [][/\ IsPrefix(funds, funds')
          /\ IsPrefix(fund_prices, fund_prices')
          /\ IsPrefix(var_analyses, var_analyses')
          /\ (run.failed = "" /\ run'.failed # "") => UNCHANGED db_vars
          /\ (Active /\ run.step = "end") => UNCHANGED db_vars
          /\ (run.failed = "" /\ run'.failed = "calculate_var") => PricesStored
          /\ var_analyses' # var_analyses =>
                /\ run.step = "store_var_analysis"
                /\ run.steps = SubSeq(Steps, 1, 4)
                /\ PricesStored
                /\ Calculated
                /\ Len(var_analyses') = Len(var_analyses) + 1
                /\ var_analyses'[Len(var_analyses')].fund_id = locals.fund_id
         ]_vars

\* A bulk fetch that has stored an analysis for one fund and is at a fund
\* whose history was too short: its prices are stored, calculate_var raised.
C23_Witness ==
    /\ run.kind = "bulk"
    /\ run.step = "end"
    /\ run.failed = "calculate_var"
    /\ run.steps = SubSeq(Steps, 1, 4)
    /\ PricesStored
    /\ Len(var_analyses) > run.analyses_before

\* The symbols of fund_options, in order.
SymbolsInOrder == [i \in 1..Len(fund_options) |-> fund_options[i].symbol]

\* The bulk fetch has left its loop.
BulkReported == run.kind = "bulk" /\ run.step = "report"

\* C24: the bulk fetch visits the five funds of fund_options once each and
\* in order, whatever a fund meets; every bulk fetch that starts reaches the
\* end of its loop; there successful_analyses is the number of analyses
\* store_var_analysis appended during the run, between 0 and 5.
C24_BulkFetch ==
    /\ [](run.kind = "bulk" =>
            /\ run.i \in 1..Len(fund_options)
            /\ run.visited = SubSeq(SymbolsInOrder, 1, run.i))
    /\ [](BulkReported =>
            /\ run.visited = SymbolsInOrder
            /\ run.successful_analyses =
                  Len(var_analyses) - run.analyses_before
            /\ run.successful_analyses \in 0..Len(fund_options))
    /\ (run.kind = "bulk") ~> BulkReported

\* The end of a bulk fetch in which some funds were analysed and others met
\* a failure or an empty price list.
C24_Witness ==
    /\ BulkReported
    /\ run.successful_analyses \in 1..(Len(fund_options) - 1)

\* C25: fund_prices holds at most one row per fund and trading date.
C25_OneRowPerFundAndDate ==
    Cardinality({<< fund_prices[i].fund_id, fund_prices[i].date >> :
                    i \in 1..Len(fund_prices)}) = Len(fund_prices)

\* The 20 names of a report, which are the names of the columns they are
\* stored in.
ReportFields ==
    {"parametric_var_5", "parametric_var_1", "historical_var_5",
     "historical_var_1", "historical_cvar_5", "historical_cvar_1",
     "monte_carlo_var_5", "monte_carlo_var_1", "monte_carlo_cvar_5",
     "monte_carlo_cvar_1", "daily_mean", "daily_std", "monthly_mean",
     "monthly_std", "skewness", "kurtosis", "normality_p_value",
     "sharpe_ratio", "annual_return", "data_points"}

\* The analyses stored for the fund of a symbol, by position in the table,
\* which is the order they were stored in.
StoredFor(symbol) ==
    {i \in 1..Len(var_analyses) :
        \E f \in 1..Len(funds) :
            funds[f].symbol = symbol /\ funds[f].id = var_analyses[i].fund_id}

\* C27: what the script read with get_fund_analysis is None when the symbol
\* has no fund or no analysis, and otherwise carries the values of the
\* analysis stored last for the symbol's fund.
C27_LatestAnalysis ==
    fund_analysis.symbol # "" =>
        LET stored == StoredFor(fund_analysis.symbol)
            last == CHOOSE i \in stored : \A j \in stored : j <= i
        IN  IF stored = {} THEN ~fund_analysis.found
            ELSE /\ fund_analysis.found
                 /\ \A f \in ReportFields :
                       fund_analysis.row[f] = var_analyses[last][f]

\* C28: every analysis row carries, under each of the 20 names, the number
\* calculate_var returned under that name, and no NULL; get_fund_analysis
\* returns rows of the table as they are.
C28_RoundTrip ==
    /\ [](\A i \in 1..Len(var_analyses) :
            \A f \in ReportFields : var_analyses[i][f] # Null)
    /\ [](fund_analysis.found =>
            \E i \in 1..Len(var_analyses) : fund_analysis.row = var_analyses[i])
    /\ [][var_analyses' # var_analyses =>
            \A f \in ReportFields :
                var_analyses'[Len(var_analyses')][f] = locals.var_results[f]
         ]_vars

====
